---- MODULE Spec2Model ----
(***************************************************************************)
(* The hierarchical navigation and mutation engine of rust-kanban          *)
(* (src/src/app.rs, src/src/model.rs, src/src/main.rs).                    *)
(*                                                                         *)
(* Strings are sequences of one-character strings.  Indices (cursor, path) *)
(* are 0-based as in the source; a sequence is indexed with index + 1.     *)
(* Every handler of App is an operator from an App record to an App        *)
(* record; the field `crashed` records that the handler panicked.          *)
(* Fields that the source does not have are history fields: `next_id`      *)
(* (the source of fresh task ids, Uuid::new_v4), `descents` (what was      *)
(* under the cursor at each push of a path segment) and, in a to-do item,  *)
(* `born` (the rank of the item's insertion among the items of its list)   *)
(* and `stamp` (the rank of the moment it last got its `done` value).      *)
(***************************************************************************)
EXTENDS Integers, Sequences, FiniteSets, TLC

\* ---------------------------------------------------------------- bounds
MaxEdits == 2        \* updates of one run that change the tree
MaxBuf == 1          \* characters in the input buffer
MaxSaveFails == 1    \* consecutive failing saves

\* the characters a key press can deliver (one letter, one whitespace)
MaxPathLen == 3
MaxIndex == 1
Chars == {"a", " "}

\* ------------------------------------------------------------ tree model
Column_new(title) == [title |-> title, tasks |-> <<>>]

NoContent == [kind |-> "None"]

Task_new(id, title, description) ==
    [id |-> id, title |-> title, description |-> description, content |-> NoContent]

Board_default ==
    [title   |-> <<"M","a","i","n"," ","B","o","a","r","d">>,
     columns |-> << Column_new(<<"T","o"," ","D","o">>),
                    Column_new(<<"I","n"," ","P","r","o","g","r","e","s","s">>),
                    Column_new(<<"D","o","n","e">>) >>]

BoardContent(b) == [kind |-> "Board", board |-> b]
TodoContent(items) == [kind |-> "Todo", items |-> items]
TextContent(txt) == [kind |-> "Text", text |-> txt]

\* TaskContent::Board(Board { title: "New Board".into(), ..Default::default() })
NewBoardContent ==
    BoardContent([Board_default EXCEPT !.title = <<"N","e","w"," ","B","o","a","r","d">>])

\* ------------------------------------------------------- small utilities
Front(s) == SubSeq(s, 1, Len(s) - 1)

RemoveAt_Last(s, i) == Front(s)

RemoveAt(s, i) == SubSeq(s, 1, i - 1) \o SubSeq(s, i + 1, Len(s))

\* a minimum that keeps the row it was given
Min2_Left(a, b) == a

Min2(a, b) == IF a < b THEN a ELSE b

Clamp_NoUpper(x, lo, hi) == IF x < lo THEN lo ELSE x

\* i32::clamp(lo, hi)
Clamp(x, lo, hi) == IF x < lo THEN lo ELSE IF x > hi THEN hi ELSE x

IsSpace(ch) == ch = " "

RECURSIVE TrimStart(_)
TrimStart(s) == IF s # <<>> /\ IsSpace(s[1]) THEN TrimStart(Tail(s)) ELSE s

RECURSIVE TrimEnd(_)
TrimEnd(s) == IF s # <<>> /\ IsSpace(s[Len(s)]) THEN TrimEnd(Front(s)) ELSE s

\* str::trim
Trim(s) == TrimEnd(TrimStart(s))

\* --------------------------------------------------------- view resolver
RECURSIVE ActiveWalk(_, _)
ActiveWalk(board, p) ==
    IF p = <<>> THEN [kind |-> "Board", board |-> board]
    ELSE LET col_idx  == p[1][1]
             task_idx == p[1][2]
         IN  IF col_idx < Len(board.columns)
                /\ task_idx < Len(board.columns[col_idx + 1].tasks)
             THEN LET task == board.columns[col_idx + 1].tasks[task_idx + 1]
                  IN  CASE task.content.kind = "Board" ->
                               ActiveWalk(task.content.board, Tail(p))
                        [] task.content.kind = "Todo" ->
                               [kind |-> "Todo", items |-> task.content.items]
                        [] task.content.kind = "Text" ->
                               [kind |-> "Text", text |-> task.content.text]
                        [] OTHER -> [kind |-> "None"]
             ELSE ActiveWalk(board, Tail(p))

get_active_content_Root(s) == [kind |-> "Board", board |-> s.root]

get_active_content(s) == ActiveWalk(s.root, s.path)

\* --------------------------------------------------------- path resolver
\* get_board_recursive: the board the path leads to, or a panic (an index
\* out of range, or the explicit panic! on a task that is not a board).
RECURSIVE get_board_recursive(_, _)
get_board_recursive(board, p) ==
    IF p = <<>> THEN [panic |-> FALSE, board |-> board]
    ELSE LET col_idx  == p[1][1]
             task_idx == p[1][2]
         IN  IF col_idx >= Len(board.columns) THEN [panic |-> TRUE]
             ELSE IF task_idx >= Len(board.columns[col_idx + 1].tasks) THEN [panic |-> TRUE]
             ELSE LET content == board.columns[col_idx + 1].tasks[task_idx + 1].content
                  IN  IF content.kind = "Board"
                      THEN get_board_recursive(content.board, Tail(p))
                      ELSE [panic |-> TRUE]

\* a write that puts the new board in place of the root
put_board_Root(board, p, nb) == nb

\* the write through the `&mut Board` that get_board_recursive returned
RECURSIVE put_board(_, _, _)
put_board(board, p, nb) ==
    IF p = <<>> THEN nb
    ELSE [board EXCEPT !.columns[p[1][1] + 1].tasks[p[1][2] + 1].content.board =
                            put_board(@, Tail(p), nb)]

\* get_task_mut_recursive: Some(task), None, or a panic (an index out of
\* range at a non-terminal step).
RECURSIVE get_task_mut_recursive(_, _)
get_task_mut_recursive(board, p) ==
    IF p = <<>> THEN [panic |-> FALSE, some |-> FALSE]
    ELSE LET col_idx  == p[1][1]
             task_idx == p[1][2]
         IN  IF Len(p) = 1
             THEN IF col_idx < Len(board.columns)
                     /\ task_idx < Len(board.columns[col_idx + 1].tasks)
                  THEN [panic |-> FALSE, some |-> TRUE,
                        task |-> board.columns[col_idx + 1].tasks[task_idx + 1]]
                  ELSE [panic |-> FALSE, some |-> FALSE]
             ELSE IF col_idx >= Len(board.columns) THEN [panic |-> TRUE]
             ELSE IF task_idx >= Len(board.columns[col_idx + 1].tasks) THEN [panic |-> TRUE]
             ELSE LET task == board.columns[col_idx + 1].tasks[task_idx + 1]
                  IN  IF task.content.kind = "Board"
                      THEN get_task_mut_recursive(task.content.board, Tail(p))
                      ELSE [panic |-> FALSE, some |-> FALSE]

\* the write through the `&mut Task` that get_task_mut_recursive returned
RECURSIVE put_task(_, _, _)
put_task(board, p, nt) ==
    IF Len(p) = 1
    THEN [board EXCEPT !.columns[p[1][1] + 1].tasks[p[1][2] + 1] = nt]
    ELSE [board EXCEPT !.columns[p[1][1] + 1].tasks[p[1][2] + 1].content.board =
                            put_task(@, Tail(p), nt)]

Panicked(s) == [s EXCEPT !.crashed = TRUE]

\* ------------------------------------------------------------ to-do list
\* items.sort_by_key(|k| k.done): a stable sort, false before true.  On a
\* short slice the standard library sorts by insertion: each element moves
\* left past the elements whose key is strictly greater.
KeyGreater_OrEqual(a, b) == a.done \/ ~b.done

KeyGreater(a, b) == a.done /\ ~b.done

RECURSIVE InsertTail(_, _)
InsertTail(sorted, x) ==
    IF sorted # <<>> /\ KeyGreater(sorted[Len(sorted)], x)
    THEN Append(InsertTail(Front(sorted), x), sorted[Len(sorted)])
    ELSE Append(sorted, x)

sort_by_key_done_Skipped(items) == items

RECURSIVE sort_by_key_done(_)
sort_by_key_done(items) ==
    IF items = <<>> THEN <<>>
    ELSE InsertTail(sort_by_key_done(Front(items)), items[Len(items)])

\* history: `born` and `stamp` are kept as ranks 1..Len(items)
BornRank(items, i) ==
    Cardinality({j \in 1..Len(items) : items[j].born <= items[i].born})

StampRank(items, i) ==
    Cardinality({j \in 1..Len(items) : items[j].stamp <= items[i].stamp})

Restamp(items) ==
    [i \in 1..Len(items) |->
        [items[i] EXCEPT !.born = BornRank(items, i), !.stamp = StampRank(items, i)]]

\* TodoItem { text, done: false }
NewItem(items, text) ==
    [text |-> text, done |-> FALSE, born |-> Len(items) + 1, stamp |-> Len(items) + 1]

FlipDone_First(items, index) ==
    Restamp([items EXCEPT ![1].done = ~@, ![1].stamp = Len(items) + 1])

\* item.done = !item.done
FlipDone(items, index) ==
    Restamp([items EXCEPT ![index + 1].done = ~@,
                          ![index + 1].stamp = Len(items) + 1])

\* -------------------------------------------------------------- handlers
move_cursor(s, dx, dy) ==
    IF s.input_mode # "Normal" \/ s.show_help THEN s
    ELSE LET v == get_active_content(s) IN
         CASE v.kind = "Board" ->
                LET col_count == Len(v.board.columns) IN
                IF col_count = 0 THEN s
                ELSE LET c == IF dx # 0 THEN Clamp(s.cursor[1] + dx, 0, col_count - 1)
                                        ELSE s.cursor[1]
                     IN  IF c >= col_count THEN Panicked(s)   \* board.columns[c]
                         ELSE LET tasks_len == Len(v.board.columns[c + 1].tasks)
                                  max_r == IF tasks_len > 0 THEN tasks_len - 1 ELSE 0
                                  r == IF dy # 0
                                       THEN IF dx # 0 THEN Min2(s.cursor[2], max_r)
                                            ELSE Clamp(s.cursor[2] + dy, 0, max_r)
                                       ELSE IF dx # 0 THEN Min2(s.cursor[2], max_r)
                                            ELSE s.cursor[2]
                              IN  [s EXCEPT !.cursor = <<c, r>>]
           [] v.kind = "Todo" ->
                LET len == Len(v.items) IN
                IF len = 0 THEN s
                ELSE LET r == IF dy # 0 THEN Clamp(s.cursor[2] + dy, 0, len - 1)
                                        ELSE s.cursor[2]
                     IN  [s EXCEPT !.cursor = <<0, r>>]
           [] OTHER -> s

EnterTextEdit_Empty(s) ==
    IF get_active_content(s).kind = "Text"
    THEN [s EXCEPT !.input_mode = "Editing", !.input_buffer = <<>>]
    ELSE s

\* the `if let ActiveContentRef::Text(text)` tail of both branches of
\* handle_drill_down
EnterTextEdit(s) ==
    LET v == get_active_content(s) IN
    IF v.kind = "Text"
    THEN [s EXCEPT !.input_mode = "Editing", !.input_buffer = v.text]
    ELSE s

PushPath_Swapped(s, c, r, id) ==
    [s EXCEPT !.path = Append(@, <<r, c>>),
              !.cursor = <<0, 0>>,
              !.descents = Append(@, [cursor |-> s.cursor, path |-> s.path, id |-> id])]

\* `self.path.push((c, r)); self.cursor = (0, 0);` on the task `id`
PushPath(s, c, r, id) ==
    [s EXCEPT !.path = Append(@, <<c, r>>),
              !.cursor = <<0, 0>>,
              !.descents = Append(@, [cursor |-> s.cursor, path |-> s.path, id |-> id])]

handle_drill_down(s) ==
    LET v == get_active_content(s) IN
    IF v.kind = "Board"
    THEN LET c == s.cursor[1]
             r == s.cursor[2]
         IN  IF c < Len(v.board.columns) /\ r < Len(v.board.columns[c + 1].tasks)
             THEN LET task == v.board.columns[c + 1].tasks[r + 1] IN
                  IF task.content.kind = "None"
                  THEN [s EXCEPT !.input_mode = "SelectType"]
                  ELSE EnterTextEdit(PushPath(s, c, r, task.id))
             ELSE s
    ELSE IF v.kind = "Text" THEN EnterTextEdit(s)
    ELSE s

go_back_PopFirst(s) ==
    IF s.path # <<>>
    THEN [s EXCEPT !.cursor = s.path[Len(s.path)], !.path = Front(@), !.descents = Front(@)]
    ELSE IF s.show_help THEN [s EXCEPT !.show_help = FALSE]
    ELSE IF s.input_mode = "SelectType" THEN [s EXCEPT !.input_mode = "Normal"]
    ELSE s

go_back_ToOrigin(s) ==
    IF s.show_help THEN [s EXCEPT !.show_help = FALSE]
    ELSE IF s.input_mode = "SelectType" THEN [s EXCEPT !.input_mode = "Normal"]
    ELSE IF s.path # <<>>
         THEN [s EXCEPT !.cursor = <<0, 0>>, !.path = Front(@), !.descents = Front(@)]
         ELSE s

go_back(s) ==
    IF s.show_help THEN [s EXCEPT !.show_help = FALSE]
    ELSE IF s.input_mode = "SelectType" THEN [s EXCEPT !.input_mode = "Normal"]
    ELSE IF s.path # <<>>
         THEN [s EXCEPT !.cursor = s.path[Len(s.path)],
                        !.path = Front(@),
                        !.descents = Front(@)]
         ELSE s

BindContent_NoDirty(s, res, content) ==
    IF res.panic THEN Panicked(s)
    ELSE IF s.cursor[1] < Len(res.board.columns)
            /\ s.cursor[2] < Len(res.board.columns[s.cursor[1] + 1].tasks)
    THEN [s EXCEPT !.root = put_board(s.root, s.path,
                      [res.board EXCEPT
                          !.columns[s.cursor[1] + 1].tasks[s.cursor[2] + 1].content = content])]
    ELSE s

\* task.content = Some(content.clone()) on the task under the cursor
BindContent(s, res, content) ==
    IF res.panic THEN Panicked(s)
    ELSE IF s.cursor[1] < Len(res.board.columns)
            /\ s.cursor[2] < Len(res.board.columns[s.cursor[1] + 1].tasks)
    THEN [s EXCEPT !.root = put_board(s.root, s.path,
                      [res.board EXCEPT
                          !.columns[s.cursor[1] + 1].tasks[s.cursor[2] + 1].content = content]),
                   !.dirty = TRUE]
    ELSE s

DrillAfterBind_KeepMode(s) ==
    IF s.crashed THEN s ELSE handle_drill_down(s)

\* `self.input_mode = InputMode::Normal; self.handle_drill_down();`
DrillAfterBind(s) ==
    IF s.crashed THEN s
    ELSE handle_drill_down([s EXCEPT !.input_mode = "Normal"])

initialize_content_AnyMode(s, content) ==
    DrillAfterBind(BindContent(s, get_board_recursive(s.root, s.path), content))

initialize_content(s, content) ==
    IF s.input_mode # "SelectType" THEN s
    ELSE DrillAfterBind(BindContent(s, get_board_recursive(s.root, s.path), content))

\* an add that leaves the pending-write flag alone
add_todo_item_Clean(s, text) ==
    LET res == get_task_mut_recursive(s.root, s.path) IN
    IF res.panic THEN Panicked(s)
    ELSE IF res.some /\ res.task.content.kind = "Todo"
    THEN [s EXCEPT !.root = put_task(s.root, s.path,
                      [res.task EXCEPT !.content.items =
                          sort_by_key_done(Append(@, NewItem(@, text)))])]
    ELSE s

add_todo_item(s, text) ==
    LET res == get_task_mut_recursive(s.root, s.path) IN
    IF res.panic THEN Panicked(s)
    ELSE IF res.some /\ res.task.content.kind = "Todo"
    THEN [s EXCEPT !.root = put_task(s.root, s.path,
                      [res.task EXCEPT !.content.items =
                          sort_by_key_done(Append(@, NewItem(@, text)))]),
                   !.dirty = TRUE]
    ELSE s

remove_todo_item(s, index) ==
    LET res == get_task_mut_recursive(s.root, s.path) IN
    IF res.panic THEN Panicked(s)
    ELSE IF res.some /\ res.task.content.kind = "Todo" /\ index < Len(res.task.content.items)
    THEN [s EXCEPT !.root = put_task(s.root, s.path,
                      [res.task EXCEPT !.content.items = Restamp(RemoveAt(@, index + 1))]),
                   !.dirty = TRUE]
    ELSE s

toggle_todo_item(s, index) ==
    LET res == get_task_mut_recursive(s.root, s.path) IN
    IF res.panic THEN Panicked(s)
    ELSE IF res.some /\ res.task.content.kind = "Todo"
    THEN IF index < Len(res.task.content.items)
         THEN [s EXCEPT !.root = put_task(s.root, s.path,
                           [res.task EXCEPT !.content.items =
                               sort_by_key_done(FlipDone(@, index))]),
                        !.dirty = TRUE]
         ELSE [s EXCEPT !.root = put_task(s.root, s.path,
                           [res.task EXCEPT !.content.items = sort_by_key_done(@)])]
    ELSE s

set_text_content_Trimmed(s, text) ==
    LET res == get_task_mut_recursive(s.root, s.path) IN
    IF res.panic THEN Panicked(s)
    ELSE IF res.some
    THEN [s EXCEPT !.root = put_task(s.root, s.path,
                                [res.task EXCEPT !.content = TextContent(Trim(text))]),
                   !.dirty = TRUE]
    ELSE s

set_text_content(s, text) ==
    LET res == get_task_mut_recursive(s.root, s.path) IN
    IF res.panic THEN Panicked(s)
    ELSE IF res.some
    THEN [s EXCEPT !.root = put_task(s.root, s.path,
                                [res.task EXCEPT !.content = TextContent(text)]),
                   !.dirty = TRUE]
    ELSE s

\* a submit that goes back to Normal with the buffer as it is
LeaveEdit_KeepBuffer(s) ==
    IF s.crashed THEN s
    ELSE [s EXCEPT !.input_mode = "Normal"]

\* the tail of submit_input: clear the buffer, back to Normal
LeaveEdit(s) ==
    IF s.crashed THEN s
    ELSE [s EXCEPT !.input_buffer = <<>>, !.input_mode = "Normal"]

\* board.columns.push(Column::new(&title))
PushColumn(s, res, title) ==
    IF res.panic THEN Panicked(s)
    ELSE [s EXCEPT !.root = put_board(s.root, s.path,
                      [res.board EXCEPT !.columns = Append(@, Column_new(title))]),
                   !.dirty = TRUE]

PushTask_Front(s, res, c, title) ==
    IF res.panic THEN Panicked(s)
    ELSE IF c < Len(res.board.columns)
    THEN [s EXCEPT !.root = put_board(s.root, s.path,
                      [res.board EXCEPT !.columns[c + 1].tasks =
                          <<Task_new(s.next_id, title, <<>>)>> \o @]),
                   !.next_id = @ + 1,
                   !.dirty = TRUE]
    ELSE s

\* board.columns[c].tasks.push(Task::new(&title, ""))
PushTask(s, res, c, title) ==
    IF res.panic THEN Panicked(s)
    ELSE IF c < Len(res.board.columns)
    THEN [s EXCEPT !.root = put_board(s.root, s.path,
                      [res.board EXCEPT !.columns[c + 1].tasks =
                          Append(@, Task_new(s.next_id, title, <<>>))]),
                   !.next_id = @ + 1,
                   !.dirty = TRUE]
    ELSE s

submit_input(s) ==
    IF s.input_mode = "EditingColumn"
    THEN IF Trim(s.input_buffer) # <<>>
         THEN LeaveEdit(PushColumn(s, get_board_recursive(s.root, s.path),
                                   Trim(s.input_buffer)))
         ELSE LeaveEdit(s)
    ELSE LeaveEdit(
           CASE get_active_content(s).kind = "Board" ->
                  IF Trim(s.input_buffer) # <<>>
                  THEN PushTask(s, get_board_recursive(s.root, s.path), s.cursor[1],
                                Trim(s.input_buffer))
                  ELSE s
             [] get_active_content(s).kind = "Todo" ->
                  IF Trim(s.input_buffer) # <<>>
                  THEN add_todo_item(s, Trim(s.input_buffer))
                  ELSE s
             [] get_active_content(s).kind = "Text" ->
                  set_text_content(s, s.input_buffer)
             [] OTHER -> s)

\* a removal that leaves the row where it was
RowAfterRemove_Keep(s, r) == s

\* `if r > 0 { self.cursor.1 = r.saturating_sub(1); }`
RowAfterRemove(s, r) ==
    IF s.crashed THEN s
    ELSE IF r > 0 THEN [s EXCEPT !.cursor[2] = r - 1] ELSE s

delete_item(s) ==
    LET v == get_active_content(s) IN
    CASE v.kind = "Board" ->
           LET c == s.cursor[1]
               r == s.cursor[2]
           IN  IF c < Len(v.board.columns) /\ r < Len(v.board.columns[c + 1].tasks)
               THEN LET res == get_board_recursive(s.root, s.path) IN
                    IF res.panic THEN Panicked(s)
                    ELSE IF c >= Len(res.board.columns)
                            \/ r >= Len(res.board.columns[c + 1].tasks)
                    THEN Panicked(s)          \* board_mut.columns[c].tasks.remove(r)
                    ELSE LET nb == [res.board EXCEPT !.columns[c + 1].tasks = RemoveAt(@, r + 1)]
                         IN  [s EXCEPT !.root = put_board(s.root, s.path, nb),
                                       !.dirty = TRUE,
                                       !.cursor = IF r >= Len(nb.columns[c + 1].tasks) /\ r > 0
                                                  THEN <<c, r - 1>> ELSE @]
               ELSE s
      [] v.kind = "Todo" ->
           LET r == s.cursor[2] IN
           IF r < Len(v.items)
           THEN RowAfterRemove(remove_todo_item(s, r), r)
           ELSE s
      [] OTHER -> s

toggle_todo(s) ==
    LET v == get_active_content(s) IN
    IF v.kind = "Todo" /\ s.cursor[2] < Len(v.items)
    THEN toggle_todo_item(s, s.cursor[2])
    ELSE s

RemoveAndPush_Copy(board, c, r, new_c) ==
    [board EXCEPT !.columns[new_c + 1].tasks = Append(@, board.columns[c + 1].tasks[r + 1])]

\* `let task = columns[c].tasks.remove(r); columns[new_c].tasks.push(task);`
RemoveAndPush(board, c, r, new_c) ==
    [board EXCEPT !.columns[c + 1].tasks = RemoveAt(@, r + 1),
                  !.columns[new_c + 1].tasks = Append(@, board.columns[c + 1].tasks[r + 1])]

FollowTask_Top(board, new_c) == <<new_c, 0>>

\* `self.cursor = (new_c, board_mut.columns[new_c].tasks.len() - 1);`
FollowTask(board, new_c) == <<new_c, Len(board.columns[new_c + 1].tasks) - 1>>

\* the `// Mutate` block of move_task_horizontal
MoveInBoard(s, res, c, r, new_c) ==
    IF res.panic THEN Panicked(s)
    ELSE IF c >= Len(res.board.columns) THEN Panicked(s)        \* board_mut.columns[c]
    ELSE IF r < Len(res.board.columns[c + 1].tasks)
    THEN IF new_c >= Len(res.board.columns) THEN Panicked(s)    \* board_mut.columns[new_c]
         ELSE [s EXCEPT !.root = put_board(s.root, s.path,
                                     RemoveAndPush(res.board, c, r, new_c)),
                        !.dirty = TRUE,
                        !.cursor = FollowTask(RemoveAndPush(res.board, c, r, new_c), new_c)]
    ELSE s

move_task_horizontal(s, dir) ==
    IF s.input_mode # "Normal" THEN s
    ELSE IF get_active_content(s).kind = "Board"
    THEN IF s.cursor[1] + dir < 0
            \/ s.cursor[1] + dir >= Len(get_active_content(s).board.columns)
         THEN s
         ELSE MoveInBoard(s, get_board_recursive(s.root, s.path),
                          s.cursor[1], s.cursor[2], s.cursor[1] + dir)
    ELSE s

\* the `match action` of App::update
handle(s, action) ==
    CASE action.type = "Quit"               -> [s EXCEPT !.should_quit = TRUE]
      [] action.type = "ToggleHelp"         -> [s EXCEPT !.show_help = ~@]
      [] action.type = "MoveUp"             -> move_cursor(s, 0, -1)
      [] action.type = "MoveDown"           -> move_cursor(s, 0, 1)
      [] action.type = "MoveLeft"           -> move_cursor(s, -1, 0)
      [] action.type = "MoveRight"          -> move_cursor(s, 1, 0)
      [] action.type = "MoveTaskLeft"       -> move_task_horizontal(s, -1)
      [] action.type = "MoveTaskRight"      -> move_task_horizontal(s, 1)
      [] action.type = "DrillDown"          -> handle_drill_down(s)
      [] action.type = "GoBack"             -> go_back(s)
      [] action.type = "EnterEditMode"      ->
            IF ~s.show_help /\ get_active_content(s).kind \in {"Board", "Todo"}
            THEN [s EXCEPT !.input_mode = "Editing"] ELSE s
      [] action.type = "EnterAddColumnMode" ->
            IF ~s.show_help /\ get_active_content(s).kind = "Board"
            THEN [s EXCEPT !.input_mode = "EditingColumn"] ELSE s
      [] action.type = "ExitEditMode"       ->
            [s EXCEPT !.input_mode = "Normal", !.input_buffer = <<>>]
      [] action.type = "InputChar"          -> [s EXCEPT !.input_buffer = Append(@, action.ch)]
      [] action.type = "InputBackspace"     ->
            [s EXCEPT !.input_buffer = IF @ = <<>> THEN <<>> ELSE Front(@)]
      [] action.type = "SubmitTask"         -> submit_input(s)
      [] action.type = "DeleteTask"         -> delete_item(s)
      [] action.type = "ToggleTodo"         -> toggle_todo(s)
      [] action.type = "SelectBoard"        -> initialize_content(s, NewBoardContent)
      [] action.type = "SelectTodo"         -> initialize_content(s, TodoContent(<<>>))
      [] action.type = "SelectText"         -> initialize_content(s, TextContent(<<>>))

\* kanban.db
NoFile == [exists |-> FALSE]
OnDisk(b) == [exists |-> TRUE, board |-> b]

\* a save that gives up the pending write when it fails
save_Forgetful(s, ok) ==
    IF ok THEN [s EXCEPT !.disk = OnDisk(s.root), !.dirty = FALSE]
    ELSE [s EXCEPT !.dirty = FALSE]

\* App::save; `ok` is whether encoding and fs::write succeed
save(s, ok) ==
    IF ok THEN [s EXCEPT !.disk = OnDisk(s.root), !.dirty = FALSE] ELSE s

\* App::update: the handler, then `if self.dirty { let _ = self.save(); }`
AutoSave(s, ok) ==
    IF s.crashed THEN s
    ELSE IF s.dirty THEN save(s, ok)
    ELSE s

update(s, action, ok) == AutoSave(handle(s, action), ok)

\* What App::update returns: `Ok(())` on every path that returns; the
\* Result of save is dropped by `let _ =`.
update_result(s, action, ok) ==
    IF handle(s, action).crashed THEN "panic" ELSE "Ok"

\* The sled-based CLI is a separate program: while the terminal program runs
\* it has no board open.  HashMap::new().
NoProject == << >>

\* ----------------------------------------------------------------- state
VARIABLES root, path, cursor, input_mode, input_buffer, should_quit, show_help,
          dirty,        \* the fields of App
          crashed,      \* the process has panicked
          next_id,      \* history: the next fresh task id
          descents,     \* history: one record per path segment, taken at its push
          disk,         \* kanban.db: the board of the last save that succeeded
          save_fails,   \* consecutive saves that failed
          edits,        \* updates so far that changed the tree
          cli_board     \* the board open in the sled-based CLI (src/main.rs)

vars == <<root, path, cursor, input_mode, input_buffer, should_quit, show_help,
          dirty, crashed, next_id, descents, disk, save_fails, edits, cli_board>>

Self == [root |-> root, path |-> path, cursor |-> cursor, input_mode |-> input_mode,
         input_buffer |-> input_buffer, should_quit |-> should_quit,
         show_help |-> show_help, dirty |-> dirty, crashed |-> crashed,
         next_id |-> next_id, descents |-> descents, disk |-> disk]

\* Boards that an earlier run of the program has left in kanban.db.
\* A to-do list of two open items, added in the order x, y.
StoredTodo ==
    [Board_default EXCEPT
        !.columns[1].tasks =
            << [Task_new(1, <<"p">>, <<>>) EXCEPT !.content =
                  TodoContent(<< [text |-> <<"x">>, done |-> FALSE, born |-> 1, stamp |-> 1],
                                 [text |-> <<"y">>, done |-> FALSE, born |-> 2, stamp |-> 2] >>)] >>]

\* A task without content above a nested board that was given a fourth
\* column and holds a text task.
StoredTree ==
    [Board_default EXCEPT
        !.columns[1].tasks =
            << Task_new(1, <<"p">>, <<>>),
               [Task_new(2, <<"q">>, <<>>) EXCEPT !.content =
                  BoardContent([NewBoardContent.board EXCEPT
                      !.columns = Append(@, Column_new(<<"a">>)),
                      !.columns[1].tasks =
                          << [Task_new(3, <<"r">>, <<>>) EXCEPT
                                !.content = TextContent(<<"x">>)] >>])] >>]

Stored == {StoredTodo, StoredTree}

RECURSIVE MaxId(_)
MaxId(b) ==
    LET ids == UNION { UNION { LET t == b.columns[c].tasks[k] IN
                                 {t.id} \cup (IF t.content.kind = "Board"
                                              THEN {MaxId(t.content.board)} ELSE {})
                               : k \in 1..Len(b.columns[c].tasks) }
                       : c \in 1..Len(b.columns) }
    IN  IF ids = {} THEN 0 ELSE CHOOSE m \in ids : \A n \in ids : n <= m

\* App::new: the stored board, or Board::default() when there is no kanban.db
Init ==
    /\ \/ root = Board_default /\ disk = NoFile
       \/ \E b \in Stored : root = b /\ disk = OnDisk(b)
    /\ path = <<>>
    /\ cursor = <<0, 0>>
    /\ input_mode = "Normal"
    /\ input_buffer = <<>>
    /\ should_quit = FALSE
    /\ show_help = FALSE
    /\ dirty = FALSE
    /\ crashed = FALSE
    /\ next_id = MaxId(root) + 1
    /\ descents = <<>>
    /\ save_fails = 0
    /\ edits = 0
    /\ cli_board = NoProject

\* run_app reads the next key until should_quit is set; a panic ends the
\* process.
Running == ~crashed /\ ~should_quit

\* One call of App::update that ended in state s2; `ok` is the outcome of
\* its save.
Commit(s2, ok) ==
    /\ ok \/ (s2.dirty /\ ~s2.crashed)
    /\ ~ok => save_fails < MaxSaveFails
    /\ Len(s2.input_buffer) <= MaxBuf
    /\ edits' = IF s2.root # root THEN edits + 1 ELSE edits
    /\ edits' <= MaxEdits
    /\ save_fails' = IF ~ok THEN save_fails + 1
                     ELSE IF s2.crashed THEN save_fails
                     ELSE 0
    /\ root' = s2.root
    /\ path' = s2.path
    /\ cursor' = s2.cursor
    /\ input_mode' = s2.input_mode
    /\ input_buffer' = s2.input_buffer
    /\ should_quit' = s2.should_quit
    /\ show_help' = s2.show_help
    /\ dirty' = s2.dirty
    /\ crashed' = s2.crashed
    /\ next_id' = s2.next_id
    /\ descents' = s2.descents
    /\ disk' = s2.disk
    /\ cli_board' = cli_board

Do(action) == \E ok \in BOOLEAN : Commit(update(Self, action, ok), ok)

Quit ==
    /\ Running
    /\ Do([type |-> "Quit"])

ToggleHelp ==
    /\ Running
    /\ Do([type |-> "ToggleHelp"])

MoveUp ==
    /\ Running
    /\ Do([type |-> "MoveUp"])

MoveDown ==
    /\ Running
    /\ Do([type |-> "MoveDown"])

MoveLeft ==
    /\ Running
    /\ Do([type |-> "MoveLeft"])

MoveRight ==
    /\ Running
    /\ Do([type |-> "MoveRight"])

MoveTaskLeft ==
    /\ Running
    /\ Do([type |-> "MoveTaskLeft"])

MoveTaskRight ==
    /\ Running
    /\ Do([type |-> "MoveTaskRight"])

DrillDown ==
    /\ Running
    /\ Do([type |-> "DrillDown"])

GoBack ==
    /\ Running
    /\ Do([type |-> "GoBack"])

EnterEditMode ==
    /\ Running
    /\ Do([type |-> "EnterEditMode"])

EnterAddColumnMode ==
    /\ Running
    /\ Do([type |-> "EnterAddColumnMode"])

ExitEditMode ==
    /\ Running
    /\ Do([type |-> "ExitEditMode"])

InputChar ==
    /\ Running
    /\ \E ch \in Chars : Do([type |-> "InputChar", ch |-> ch])

InputBackspace ==
    /\ Running
    /\ Do([type |-> "InputBackspace"])

SubmitTask ==
    /\ Running
    /\ Do([type |-> "SubmitTask"])

DeleteTask ==
    /\ Running
    /\ Do([type |-> "DeleteTask"])

ToggleTodo ==
    /\ Running
    /\ Do([type |-> "ToggleTodo"])

SelectBoard ==
    /\ Running
    /\ Do([type |-> "SelectBoard"])

SelectTodo ==
    /\ Running
    /\ Do([type |-> "SelectTodo"])

SelectText ==
    /\ Running
    /\ Do([type |-> "SelectText"])

Next ==
    \/ Quit
    \/ ToggleHelp
    \/ MoveUp
    \/ MoveDown
    \/ MoveLeft
    \/ MoveRight
    \/ MoveTaskLeft
    \/ MoveTaskRight
    \/ DrillDown
    \/ GoBack
    \/ EnterEditMode
    \/ EnterAddColumnMode
    \/ ExitEditMode
    \/ InputChar
    \/ InputBackspace
    \/ SubmitTask
    \/ DeleteTask
    \/ ToggleTodo
    \/ SelectBoard
    \/ SelectTodo
    \/ SelectText

Spec == Init /\ [][Next]_vars

\* ------------------------------------------------------------------ load
\* A kanban.db whose bytes are not an encoded Board.
Garbage == [exists |-> TRUE, bytes |-> "garbage"]

\* what the program may find at DB_FILE when it starts
Files == {NoFile, Garbage} \cup {OnDisk(b) : b \in Stored}

\* bincode::serde::decode_from_slice(&data, ..).map(|(b, _)| b)
decode_from_slice(file) ==
    IF "board" \in DOMAIN file THEN [ok |-> TRUE, board |-> file.board]
    ELSE [ok |-> FALSE]

\* App::new; `readable` is whether fs::read succeeds on a file that exists.
\* `fs::read(&path)?` returns the error of the read to the caller.
App_new(file, readable) ==
    IF file.exists /\ ~readable THEN [ok |-> FALSE]
    ELSE [ok |-> TRUE,
          app |-> [root |-> IF file.exists /\ decode_from_slice(file).ok
                            THEN decode_from_slice(file).board
                            ELSE Board_default,
                   path |-> <<>>,
                   cursor |-> <<0, 0>>,
                   input_mode |-> "Normal",
                   input_buffer |-> <<>>,
                   should_quit |-> FALSE,
                   show_help |-> FALSE,
                   dirty |-> FALSE]]

\* The program starts on any file, readable or not.  When App::new returns
\* Err, main returns it before run_app is entered: the process is over, which
\* `crashed` records, and the other variables hold the values of an App that
\* was never built.
InitLoad ==
    \E file \in Files, readable \in BOOLEAN :
        LET r == App_new(file, readable)
            a == IF r.ok THEN r.app ELSE App_new(NoFile, TRUE).app
        IN  /\ disk = file
            /\ crashed = ~r.ok
            /\ root = a.root
            /\ path = a.path
            /\ cursor = a.cursor
            /\ input_mode = a.input_mode
            /\ input_buffer = a.input_buffer
            /\ should_quit = a.should_quit
            /\ show_help = a.show_help
            /\ dirty = a.dirty
            /\ next_id = MaxId(a.root) + 1
            /\ descents = <<>>
            /\ save_fails = 0
            /\ edits = 0
            /\ cli_board = NoProject

NextLoad == Next

SpecLoad == InitLoad /\ [][NextLoad]_vars

\* ------------------------------------------------------------- key map
\* A key press: its KeyCode ("Char" with the character, or a named key) and
\* whether SHIFT is among its modifiers.
Key(code, ch, shift) == [code |-> code, ch |-> ch, shift |-> shift]
CharKey(ch) == Key("Char", ch, FALSE)
NamedKey(code) == Key(code, "", FALSE)

None == [some |-> FALSE]
Some(t) == [some |-> TRUE, action |-> [type |-> t]]

\* the `match app.input_mode` of run_app: the Option<Action> of a key press
key_action(mode, key) ==
    CASE mode = "Normal" ->
           IF key.shift
           THEN CASE key.code = "Left" \/ (key.code = "Char" /\ key.ch = "H") -> Some("MoveTaskLeft")
                  [] key.code = "Right" \/ (key.code = "Char" /\ key.ch = "L") -> Some("MoveTaskRight")
                  [] OTHER -> None
           ELSE CASE key.code = "Char" /\ key.ch = "q" -> Some("Quit")
                  [] key.code = "Left" \/ (key.code = "Char" /\ key.ch = "h") -> Some("MoveLeft")
                  [] key.code = "Right" \/ (key.code = "Char" /\ key.ch = "l") -> Some("MoveRight")
                  [] key.code = "Up" \/ (key.code = "Char" /\ key.ch = "k") -> Some("MoveUp")
                  [] key.code = "Down" \/ (key.code = "Char" /\ key.ch = "j") -> Some("MoveDown")
                  [] key.code = "Enter" -> Some("DrillDown")
                  [] key.code = "Backspace" \/ key.code = "Esc" -> Some("GoBack")
                  [] key.code = "Char" /\ key.ch = "a" -> Some("EnterEditMode")
                  [] key.code = "Char" /\ key.ch = "c" -> Some("EnterAddColumnMode")
                  [] key.code = "Char" /\ key.ch = "d" -> Some("DeleteTask")
                  [] key.code = "Char" /\ key.ch = " " -> Some("ToggleTodo")
                  [] key.code = "Char" /\ key.ch = "H" -> Some("MoveTaskLeft")
                  [] key.code = "Char" /\ key.ch = "L" -> Some("MoveTaskRight")
                  [] OTHER -> None
      [] mode \in {"Editing", "EditingColumn"} ->
           CASE key.code = "Enter" -> Some("SubmitTask")
             [] key.code = "Esc" -> Some("ExitEditMode")
             [] key.code = "Char" -> [some |-> TRUE,
                                      action |-> [type |-> "InputChar", ch |-> key.ch]]
             [] key.code = "Backspace" -> Some("InputBackspace")
             [] OTHER -> None
      [] mode = "SelectType" ->
           CASE key.code = "Char" /\ key.ch = "b" -> Some("SelectBoard")
             [] key.code = "Char" /\ key.ch = "t" -> Some("SelectTodo")
             [] key.code = "Char" /\ key.ch = "n" -> Some("SelectText")
             [] key.code = "Esc" -> Some("GoBack")
             [] OTHER -> None

\* a key map that lets the keys of Normal mode through in SelectType mode
run_app_Loose(s, key) ==
    IF s.input_mode = "SelectType" /\ key_action("Normal", key).some
    THEN key_action("Normal", key)
    ELSE key_action(s.input_mode, key)

\* one pass of the loop of run_app on a key press: '?' outside Editing mode
\* and every key while the help is shown toggle the help; otherwise the key
\* map of the mode decides
run_app(s, key) ==
    IF key.code = "Char" /\ key.ch = "?" /\ s.input_mode # "Editing" THEN Some("ToggleHelp")
    ELSE IF s.show_help THEN Some("ToggleHelp")
    ELSE key_action(s.input_mode, key)

\* the keys pressed
Keys ==
    {CharKey(ch) : ch \in {"?", "q", "a", "c", "d", " ", "b", "t", "n", "H"}}
    \cup {NamedKey(code) : code \in {"Left", "Right", "Up", "Down", "Enter",
                                     "Backspace", "Esc", "Tab"}}
    \cup {Key("Right", "", TRUE), Key("Char", "L", TRUE), Key("Char", "a", TRUE)}

\* the characters typed into the buffer
Typed == Chars \cup {"?"}

\* a key press whose action is passed to App::update
KeyPress ==
    /\ Running
    /\ \E key \in Keys :
          /\ run_app(Self, key).some
          /\ run_app(Self, key).action.type = "InputChar" => key.ch \in Typed
          /\ Do(run_app(Self, key).action)

\* a key press that the key map of the mode drops
KeyIgnored ==
    /\ Running
    /\ \E key \in Keys : ~run_app(Self, key).some
    /\ UNCHANGED vars

NextKeys ==
    \/ KeyPress
    \/ KeyIgnored

SpecKeys == Init /\ [][NextKeys]_vars

\* ------------------------------------------------- sled-based CLI (src/main.rs)
\* A board of the CLI is a HashMap from column name to Vec<Task>.
CliTask(title) == [title |-> title, subtasks |-> <<>>, subkanban |-> "None"]

\* create_project: the columns of a "kanban" and of a "todo" project
\* (the third column is "Concluído" in the source; written here without the accent)
KanbanProject == [c \in {"A Fazer", "Em Progresso", "Concluido"} |-> <<>>]
TodoProject == [c \in {"ToDo", "Feito"} |-> <<>>]

\* what the user may type for a column, a title and an index
CliCols == {"A Fazer", "Em Progresso", "Concluido", "ToDo", "Feito"}
CliTitles == {"t", "u"}
MaxCliTasks == 3
CliIdx == 0 .. (MaxCliTasks + 1)

RECURSIVE CountIn(_, _)
CountIn(board, cols) ==
    IF cols = {} THEN 0
    ELSE LET c == CHOOSE x \in cols : TRUE
         IN  Len(board[c]) + CountIn(board, cols \ {c})

\* the number of tasks of the board
CliTotal(board) == CountIn(board, DOMAIN board)

add(board, col, title) ==
    IF col \notin DOMAIN board THEN board
    ELSE [board EXCEPT ![col] = Append(@, CliTask(title))]

\* idx counts from 1.  The task is removed from c1 before c2 is looked up.
move_task(board, c1, c2, idx) ==
    IF c1 \in DOMAIN board
    THEN IF idx = 0 \/ idx > Len(board[c1]) THEN board
         ELSE LET task == board[c1][idx]
                  removed == [board EXCEPT ![c1] = RemoveAt(@, idx)]
              IN  IF c2 \in DOMAIN removed
                  THEN [removed EXCEPT ![c2] = Append(@, task)]
                  ELSE removed
    ELSE board

delete_task(board, col, idx) ==
    IF col \in DOMAIN board
    THEN IF idx = 0 \/ idx > Len(board[col]) THEN board
         ELSE [board EXCEPT ![col] = RemoveAt(@, idx)]
    ELSE board

\* the terminal program is not running
TuiIdle ==
    UNCHANGED <<root, path, cursor, input_mode, input_buffer, should_quit, show_help,
                dirty, crashed, next_id, descents, disk, save_fails, edits>>

\* enter_project on a project that create_project has just made
InitLegacy ==
    /\ cli_board \in {KanbanProject, TodoProject}
    /\ root = Board_default
    /\ disk = NoFile
    /\ path = <<>>
    /\ cursor = <<0, 0>>
    /\ input_mode = "Normal"
    /\ input_buffer = <<>>
    /\ should_quit = FALSE
    /\ show_help = FALSE
    /\ dirty = FALSE
    /\ crashed = FALSE
    /\ next_id = 1
    /\ descents = <<>>
    /\ save_fails = 0
    /\ edits = 0

\* the commands "add", "move" and "del" of enter_project
CliAdd ==
    /\ CliTotal(cli_board) < MaxCliTasks
    /\ \E col \in CliCols, title \in CliTitles : cli_board' = add(cli_board, col, title)
    /\ TuiIdle

CliMove ==
    /\ \E c1 \in CliCols, c2 \in CliCols, idx \in CliIdx :
          cli_board' = move_task(cli_board, c1, c2, idx)
    /\ TuiIdle

CliDelete ==
    /\ \E col \in CliCols, idx \in CliIdx : cli_board' = delete_task(cli_board, col, idx)
    /\ TuiIdle

NextLegacy ==
    \/ CliAdd
    \/ CliMove
    \/ CliDelete

SpecLegacy == InitLegacy /\ [][NextLegacy]_vars

\* ================================================================ claims
Max2(a, b) == IF a > b THEN a ELSE b

Act(t) == [type |-> t]

RECURSIVE TaskCount(_)
TaskCount(b) ==
    LET RECURSIVE InTasks(_)
        InTasks(ts) ==
            IF ts = <<>> THEN 0
            ELSE 1 + (IF ts[1].content.kind = "Board" THEN TaskCount(ts[1].content.board) ELSE 0)
                   + InTasks(Tail(ts))
        RECURSIVE InCols(_)
        InCols(cs) == IF cs = <<>> THEN 0 ELSE InTasks(cs[1].tasks) + InCols(Tail(cs))
    IN  InCols(b.columns)

ViewIs(s, kind) == get_active_content(s).kind = kind

\* the task under the cursor of a board view exists
TaskAtCursor(s) ==
    /\ ViewIs(s, "Board")
    /\ s.cursor[1] < Len(get_active_content(s).board.columns)
    /\ s.cursor[2] < Len(get_active_content(s).board.columns[s.cursor[1] + 1].tasks)

\* ---------------------------------------------------------------------- C1
CursorClamped(s) ==
    CASE ViewIs(s, "Board") ->
           /\ s.cursor[1] < Len(get_active_content(s).board.columns)
           /\ s.cursor[2] < Max2(1, Len(get_active_content(s).board.columns[s.cursor[1] + 1].tasks))
      [] ViewIs(s, "Todo") ->
           /\ s.cursor[1] = 0
           /\ s.cursor[2] < Max2(1, Len(get_active_content(s).items))
      [] OTHER -> TRUE

MoveTypes == {"MoveUp", "MoveDown", "MoveLeft", "MoveRight"}

MovedColumnOK(before, after, k, c, r, new_c) ==
    LET old == before.columns[k].tasks
        new == after.columns[k].tasks
    IN  /\ after.columns[k].title = before.columns[k].title
        /\ IF k = c + 1
           THEN /\ Len(new) = Len(old) - 1
                /\ \A i \in 1..Len(new) : new[i] = IF i <= r THEN old[i] ELSE old[i + 1]
           ELSE IF k = new_c + 1
           THEN /\ Len(new) = Len(old) + 1
                /\ \A i \in 1..Len(old) : new[i] = old[i]
                /\ new[Len(new)] = before.columns[c + 1].tasks[r + 1]
           ELSE new = old

MoveConserved(s, s2, dir) ==
    /\ TaskCount(s2.root) = TaskCount(s.root)
    /\ s2.root # s.root =>
         /\ TaskAtCursor(s)
         /\ ViewIs(s2, "Board")
         /\ Len(get_active_content(s2).board.columns) = Len(get_active_content(s).board.columns)
         /\ \A k \in 1..Len(get_active_content(s).board.columns) :
               MovedColumnOK(get_active_content(s).board, get_active_content(s2).board,
                             k, s.cursor[1], s.cursor[2], s.cursor[1] + dir)

\* C2: MoveTaskLeft/MoveTaskRight keeps the number of tasks of the tree; when
\* it takes effect the source column loses exactly the task under the cursor,
\* the destination column gets that same task appended, the other columns
\* are unchanged.
C2_MoveTaskConservation ==
    Running => /\ MoveConserved(Self, handle(Self, Act("MoveTaskLeft")), -1)
               /\ MoveConserved(Self, handle(Self, Act("MoveTaskRight")), 1)

\* both tasks of the stored tree have been moved to the second column, one after the other
C2_Witness ==
    /\ edits = 2 /\ path = <<>>
    /\ root.columns[1].tasks = <<>>
    /\ Len(root.columns[2].tasks) = 2
    /\ root.columns[2].tasks[1] = StoredTree.columns[1].tasks[1]
    /\ root.columns[2].tasks[2] = StoredTree.columns[1].tasks[2]

\* ---------------------------------------------------------------------- C3
TargetInRange(s, dir) ==
    /\ s.cursor[1] + dir >= 0
    /\ s.cursor[1] + dir < Len(get_active_content(s).board.columns)

\* the moved task is the last of the target column and the cursor is on it
PlacedLast(s, s2, dir) ==
    /\ ViewIs(s2, "Board")
    /\ s2.cursor[1] = s.cursor[1] + dir
    /\ s2.cursor[2] = Len(get_active_content(s2).board.columns[s2.cursor[1] + 1].tasks) - 1
    /\ get_active_content(s2).board.columns[s2.cursor[1] + 1].tasks[s2.cursor[2] + 1]
         = get_active_content(s).board.columns[s.cursor[1] + 1].tasks[s.cursor[2] + 1]

SameButDirty(s, s2) ==
    /\ s2.root = s.root /\ s2.cursor = s.cursor /\ s2.path = s.path
    /\ s2.input_mode = s.input_mode

MovePlacement(s, s2, dir) ==
    IF TaskAtCursor(s) /\ TargetInRange(s, dir)
    THEN PlacedLast(s, s2, dir)
    ELSE SameButDirty(s, s2) /\ (s2.dirty => s.dirty)

MovePlacementStrict(s, s2, dir) ==
    IF TaskAtCursor(s) /\ TargetInRange(s, dir)
    THEN PlacedLast(s, s2, dir)
    ELSE SameButDirty(s, s2) /\ s2.dirty = s.dirty

\* C3 (as amended): in Normal mode with a Board view, a move of the task under
\* the cursor to an in-range target column puts it last in that column with
\* the cursor on it; with the target out of range or no task under the
\* cursor, tree, cursor, path and mode are unchanged and the dirty flag is
\* not set (a pending save may clear it).
C3_MoveTaskPlacement ==
    (Running /\ input_mode = "Normal" /\ ViewIs(Self, "Board")) =>
        \A ok \in BOOLEAN :
            /\ MovePlacement(Self, update(Self, Act("MoveTaskLeft"), ok), -1)
            /\ MovePlacement(Self, update(Self, Act("MoveTaskRight"), ok), 1)

\* C3 as stated: the dirty flag too is unchanged by a move that has no effect
C3_AsStated ==
    (Running /\ input_mode = "Normal" /\ ViewIs(Self, "Board")) =>
        \A ok \in BOOLEAN :
            /\ MovePlacementStrict(Self, update(Self, Act("MoveTaskLeft"), ok), -1)
            /\ MovePlacementStrict(Self, update(Self, Act("MoveTaskRight"), ok), 1)

\* the first task of the stored tree has been moved to the empty second column
C3_Witness ==
    /\ edits = 1 /\ path = <<>> /\ input_mode = "Normal"
    /\ cursor = <<1, 0>>
    /\ root.columns[1].tasks = <<StoredTree.columns[1].tasks[2]>>
    /\ root.columns[2].tasks = <<StoredTree.columns[1].tasks[1]>>

\* ---------------------------------------------------------------------- C4
\* every to-do list of the tree under board b
RECURSIVE TodoLists(_)
TodoLists(b) ==
    UNION { UNION { IF b.columns[c].tasks[r].content.kind = "Todo"
                    THEN {b.columns[c].tasks[r].content.items}
                    ELSE IF b.columns[c].tasks[r].content.kind = "Board"
                    THEN TodoLists(b.columns[c].tasks[r].content.board)
                    ELSE {}
                    : r \in 1..Len(b.columns[c].tasks) }
            : c \in 1..Len(b.columns) }

Partitioned(items) ==
    \A i, j \in 1..Len(items) : i < j => ~(items[i].done /\ ~items[j].done)

\* not-done items in the order in which they last became not-done, done
\* items with the one marked most recently first
OrderedByLastChange(items) ==
    /\ Partitioned(items)
    /\ \A i, j \in 1..Len(items) :
          i < j => /\ (~items[i].done /\ ~items[j].done) => items[i].stamp < items[j].stamp
                   /\ (items[i].done /\ items[j].done) => items[i].stamp > items[j].stamp

\* not-done items in insertion order, done items with the one marked first first
OrderedAsStated(items) ==
    /\ Partitioned(items)
    /\ \A i, j \in 1..Len(items) :
          i < j => /\ (~items[i].done /\ ~items[j].done) => items[i].born < items[j].born
                   /\ (items[i].done /\ items[j].done) => items[i].stamp < items[j].stamp

\* C4 (as amended): after any sequence of add, toggle and delete operations
\* a to-do list consists of its not-done items, in the order in which each
\* last became not-done (by being added or un-marked), followed by its done
\* items in the reverse of the order in which they were marked done (the
\* item marked most recently first).
C4_TodoOrdering ==
    \A items \in TodoLists(root) : OrderedByLastChange(items)

\* C4 as stated: not-done items in insertion order, then done items in the
\* order in which they were marked done, the earlier-marked first
C4_AsStated ==
    \A items \in TodoLists(root) : OrderedAsStated(items)

\* y was marked done, then x: x now stands before y in the done group
C4_Witness ==
    /\ edits = 2 /\ ViewIs(Self, "Todo")
    /\ Len(get_active_content(Self).items) = 2
    /\ get_active_content(Self).items[1].text = <<"x">>
    /\ get_active_content(Self).items[1].done
    /\ get_active_content(Self).items[2].done
    /\ get_active_content(Self).items[1].stamp = 2

\* ---------------------------------------------------------------------- C5
NotDone(item) == ~item.done
IsDone(item) == item.done

StablePartition(items) == SelectSeq(items, NotDone) \o SelectSeq(items, IsDone)

\* the list without the history ranks of the time of the last change
Shown(items) ==
    [i \in 1..Len(items) |->
        [text |-> items[i].text, done |-> items[i].done, born |-> items[i].born]]

ToggleStep(s, s2) ==
    /\ ViewIs(s2, "Todo")
    /\ Shown(get_active_content(s2).items)
         = Shown(StablePartition([get_active_content(s).items
                                     EXCEPT ![s.cursor[2] + 1].done = ~@]))

AddStep(s, s2) ==
    /\ ViewIs(s2, "Todo")
    /\ Shown(get_active_content(s2).items)
         = Shown(StablePartition(Append(get_active_content(s).items,
               [text |-> Trim(s.input_buffer), done |-> FALSE,
                born |-> Len(get_active_content(s).items) + 1, stamp |-> 0])))
    /\ get_active_content(s2).items[Len(SelectSeq(get_active_content(s).items, NotDone)) + 1].born
         = Len(get_active_content(s).items) + 1

AddsItem(s) ==
    /\ ViewIs(s, "Todo")
    /\ s.input_mode # "EditingColumn"
    /\ Trim(s.input_buffer) # <<>>

TogglesItem(s) ==
    /\ ViewIs(s, "Todo")
    /\ s.cursor[2] < Len(get_active_content(s).items)

\* C5: after each add of a to-do item and after each toggle the list is the
\* stable partition by `done` of the list as that operation modified it; in
\* every reachable state no done item precedes a not-done item in any to-do
\* list, and a newly added item sits directly after the items that were not
\* done before.
C5_StablePartitionStep ==
    /\ \A items \in TodoLists(root) : Partitioned(items)
    /\ (Running /\ AddsItem(Self)) => AddStep(Self, handle(Self, Act("SubmitTask")))
    /\ (Running /\ TogglesItem(Self)) => ToggleStep(Self, handle(Self, Act("ToggleTodo")))

\* x was marked done and then "a" was added: it stands between y and x
C5_Witness ==
    /\ edits = 2 /\ ViewIs(Self, "Todo")
    /\ Len(get_active_content(Self).items) = 3
    /\ get_active_content(Self).items[1].text = <<"y">>
    /\ get_active_content(Self).items[2].text = <<"a">>
    /\ get_active_content(Self).items[2].born = 3
    /\ ~get_active_content(Self).items[2].done
    /\ get_active_content(Self).items[3].text = <<"x">>
    /\ get_active_content(Self).items[3].done

\* ---------------------------------------------------------------------- C6
\* item `it` of the list after the toggle is item i of the list before it
SameItem(it, items, i, r) ==
    /\ it.born = items[i].born
    /\ it.text = items[i].text
    /\ it.done = IF i = r + 1 THEN ~items[i].done ELSE items[i].done

ToggleEffect(s, s2) ==
    /\ ViewIs(s2, "Todo")
    /\ Len(get_active_content(s2).items) = Len(get_active_content(s).items)
    /\ \A j \in 1..Len(get_active_content(s2).items) :
          \E i \in 1..Len(get_active_content(s).items) :
              SameItem(get_active_content(s2).items[j], get_active_content(s).items, i, s.cursor[2])
    /\ \A i \in 1..Len(get_active_content(s).items) :
          \E j \in 1..Len(get_active_content(s2).items) :
              SameItem(get_active_content(s2).items[j], get_active_content(s).items, i, s.cursor[2])
    /\ s2.cursor = s.cursor
    /\ s2.path = s.path
    /\ s2.input_mode = s.input_mode

\* C6: ToggleTodo in a to-do view with cursor.row < item_count flips `done` of
\* exactly the item at cursor.row; the number of items, each item's text, the
\* `done` flag of the other items, the cursor, the path and the input mode
\* are unchanged.
C6_ToggleEffect ==
    (Running /\ TogglesItem(Self)) =>
        \A ok \in BOOLEAN : ToggleEffect(Self, update(Self, Act("ToggleTodo"), ok))

\* the second item of the stored list has been marked done with the cursor on it
C6_Witness ==
    /\ edits = 1 /\ ViewIs(Self, "Todo")
    /\ cursor = <<0, 1>>
    /\ Len(get_active_content(Self).items) = 2
    /\ get_active_content(Self).items[1].text = <<"x">>
    /\ ~get_active_content(Self).items[1].done
    /\ get_active_content(Self).items[2].text = <<"y">>
    /\ get_active_content(Self).items[2].done

\* ---------------------------------------------------------------------- C7
\* the descent recorded when the last segment of the path was pushed
LastDescent(s) == s.descents[Len(s.descents)]

\* the id of the task under the cursor of a board view
IdAtCursor(s) ==
    get_active_content(s).board.columns[s.cursor[1] + 1].tasks[s.cursor[2] + 1].id

PopsSegment(s) ==
    /\ ~s.show_help
    /\ s.input_mode # "SelectType"
    /\ s.path # <<>>

RoundTrip(s, s2) ==
    /\ s2.cursor = LastDescent(s).cursor
    /\ s2.path = LastDescent(s).path
    /\ TaskAtCursor(s2)
    /\ IdAtCursor(s2) = LastDescent(s).id

\* C7: whatever was done at the deeper level since a segment was pushed with
\* the cursor at (c, r), the go-back that pops the segment sets the cursor
\* to (c, r) and the path to its value before the descent, and (c, r) still
\* addresses the task that was drilled into.
C7_DescentAscentRoundTrip ==
    /\ Len(descents) = Len(path)
    /\ (Running /\ PopsSegment(Self)) =>
          \A ok \in BOOLEAN : RoundTrip(Self, update(Self, Act("GoBack"), ok))

\* back at the root on the second task of the stored tree, after a task was
\* added to its nested board
C7_Witness ==
    /\ edits = 1 /\ path = <<>> /\ descents = <<>>
    /\ cursor = <<0, 1>>
    /\ Len(root.columns[1].tasks) = 2
    /\ root.columns[1].tasks[2].content.kind = "Board"
    /\ Len(root.columns[1].tasks[2].content.board.columns[1].tasks) = 2

\* ---------------------------------------------------------------------- C8
\* the segments of p are in range from board b, all but the last lead into
\* a nested board, and segment k reaches the task recorded in ds[k]
RECURSIVE PathResolves(_, _, _)
PathResolves(b, p, ds) ==
    \/ p = <<>>
    \/ /\ p[1][1] < Len(b.columns)
       /\ p[1][2] < Len(b.columns[p[1][1] + 1].tasks)
       /\ b.columns[p[1][1] + 1].tasks[p[1][2] + 1].id = ds[1].id
       /\ Len(p) > 1 =>
            /\ b.columns[p[1][1] + 1].tasks[p[1][2] + 1].content.kind = "Board"
            /\ PathResolves(b.columns[p[1][1] + 1].tasks[p[1][2] + 1].content.board,
                            Tail(p), Tail(ds))

\* C8: in every reachable state the path resolves from the root: each pair is
\* in range in the board it addresses, each pair but the last addresses a
\* task holding a nested board, and the task the path resolves to is the one
\* that was under the cursor when its segment was pushed.
C8_PathValidity ==
    /\ Len(descents) = Len(path)
    /\ PathResolves(root, path, descents)
    /\ path # <<>> =>
          /\ ~get_task_mut_recursive(root, path).panic
          /\ get_task_mut_recursive(root, path).some
          /\ get_task_mut_recursive(root, path).task.id = descents[Len(path)].id

\* two levels down in the stored tree, in the text of the nested task
C8_Witness ==
    /\ path = << <<0, 1>>, <<0, 0>> >>
    /\ ViewIs(Self, "Text")
    /\ descents[2].id = 3

\* ---------------------------------------------------------------------- C9
\* C9 as stated: no sequence of actions reaches the panic of
\* get_board_recursive or an index out of range
C9_NoCrash == ~crashed

\* --------------------------------------------------------------------- C10
\* the <<id, kind of content>> of every task of the tree under board b
RECURSIVE Kinds(_)
Kinds(b) ==
    UNION { UNION { {<<b.columns[c].tasks[r].id, b.columns[c].tasks[r].content.kind>>}
                    \cup (IF b.columns[c].tasks[r].content.kind = "Board"
                          THEN Kinds(b.columns[c].tasks[r].content.board)
                          ELSE {})
                    : r \in 1..Len(b.columns[c].tasks) }
            : c \in 1..Len(b.columns) }

\* no task that had content has it of another kind afterwards
KindsKept(s, s2) ==
    \A old \in Kinds(s.root) : \A new \in Kinds(s2.root) :
        (old[1] = new[1] /\ old[2] # "None") => new[2] = old[2]

ActionTypes ==
    {"Quit", "ToggleHelp", "MoveUp", "MoveDown", "MoveLeft", "MoveRight",
     "MoveTaskLeft", "MoveTaskRight", "DrillDown", "GoBack", "EnterEditMode",
     "EnterAddColumnMode", "ExitEditMode", "InputBackspace", "SubmitTask",
     "DeleteTask", "ToggleTodo", "SelectBoard", "SelectTodo", "SelectText"}

\* C10 as stated: whatever the action, a task whose content is set keeps the
\* kind of its content
C10_ContentWriteOnce ==
    Running =>
        /\ \A t \in ActionTypes : KindsKept(Self, handle(Self, Act(t)))
        /\ \A ch \in Chars : KindsKept(Self, handle(Self, [type |-> "InputChar", ch |-> ch]))

\* --------------------------------------------------------------------- C11
\* the task under the cursor of a board view
TaskUnderCursor(s) ==
    get_active_content(s).board.columns[s.cursor[1] + 1].tasks[s.cursor[2] + 1]

\* the fields of App but `dirty`, which the save at the end of update may clear
SameButSaved(s, s2) ==
    /\ s2.root = s.root /\ s2.path = s.path /\ s2.cursor = s.cursor
    /\ s2.input_mode = s.input_mode /\ s2.input_buffer = s.input_buffer
    /\ s2.show_help = s.show_help /\ s2.should_quit = s.should_quit
    /\ ~s2.crashed

Descended(s, s2) ==
    /\ s2.path = Append(s.path, s.cursor)
    /\ s2.cursor = <<0, 0>>

DrillOutcome(s, s2) ==
    /\ s2.root = s.root
    /\ ~s2.crashed
    /\ IF ~TaskAtCursor(s) THEN SameButSaved(s, s2)
       ELSE CASE TaskUnderCursor(s).content.kind = "None" ->
                   SameButSaved([s EXCEPT !.input_mode = "SelectType"], s2)
              [] TaskUnderCursor(s).content.kind \in {"Board", "Todo"} ->
                   /\ Descended(s, s2)
                   /\ s2.input_mode = "Normal"
                   /\ s2.input_buffer = s.input_buffer
              [] TaskUnderCursor(s).content.kind = "Text" ->
                   /\ Descended(s, s2)
                   /\ s2.input_mode = "Editing"
                   /\ s2.input_buffer = TaskUnderCursor(s).content.text

SelectTypes == {"SelectBoard", "SelectTodo", "SelectText"}

\* the empty content each selection binds
EmptyContent(t) ==
    CASE t = "SelectBoard" -> NewBoardContent
      [] t = "SelectTodo"  -> TodoContent(<<>>)
      [] t = "SelectText"  -> TextContent(<<>>)

\* board `after` is board `before` with `content` in the task at (c, r)
BoundIn(before, after, c, r, content) ==
    /\ Len(after.columns) = Len(before.columns)
    /\ after.title = before.title
    /\ \A k \in 1..Len(before.columns) :
          /\ after.columns[k].title = before.columns[k].title
          /\ Len(after.columns[k].tasks) = Len(before.columns[k].tasks)
          /\ \A i \in 1..Len(before.columns[k].tasks) :
                after.columns[k].tasks[i] =
                    IF k = c + 1 /\ i = r + 1
                    THEN [before.columns[k].tasks[i] EXCEPT !.content = content]
                    ELSE before.columns[k].tasks[i]

\* the tasks outside the viewed board are as they were
RestKept(s, s2, content) ==
    Kinds(s2.root) = (Kinds(s.root) \ {<<TaskUnderCursor(s).id, "None">>})
                        \cup {<<TaskUnderCursor(s).id, content.kind>>}

Initialized(s, s2, content) ==
    /\ ~s2.crashed
    /\ BoundIn(get_active_content(s).board,
               get_active_content([s2 EXCEPT !.path = s.path]).board,
               s.cursor[1], s.cursor[2], content)
    /\ RestKept(s, s2, content)
    /\ TaskCount(s2.root) = TaskCount(s.root)
    /\ Descended(s, s2)

AwaitsKind(s) ==
    /\ s.input_mode = "SelectType"
    /\ TaskAtCursor(s)
    /\ TaskUnderCursor(s).content.kind = "None"

\* C12: in SelectType mode on a task without content, selecting a kind binds
\* the empty content of that kind to exactly that task, leaves every other
\* task as it was, sets `dirty` (so that update saves the tree), appends the
\* cursor position to the path and sets the cursor to (0,0).
C12_InitializeContent ==
    (Running /\ AwaitsKind(Self)) =>
        \A t \in SelectTypes :
            /\ handle(Self, Act(t)).dirty
            /\ \A ok \in BOOLEAN :
                  /\ Initialized(Self, update(Self, Act(t), ok), EmptyContent(t))
                  /\ ok => update(Self, Act(t), ok).disk = OnDisk(update(Self, Act(t), ok).root)

\* the first task of the stored tree has been given an empty to-do list and
\* the view is inside it
C12_Witness ==
    /\ edits = 1
    /\ path = << <<0, 0>> >> /\ cursor = <<0, 0>>
    /\ input_mode = "Normal"
    /\ ViewIs(Self, "Todo")
    /\ root.columns[1].tasks =
          << [StoredTree.columns[1].tasks[1] EXCEPT !.content = TodoContent(<<>>)],
             StoredTree.columns[1].tasks[2] >>

\* --------------------------------------------------------------------- C13
\* the mode a selection leaves: Editing when it has opened a text
ModeAfterSelect(s, s2, t) ==
    \/ s2.crashed
    \/ s2.input_mode = IF t = "SelectText" /\ TaskAtCursor(s) THEN "Editing" ELSE "Normal"

C14_GoBackEndsNormal ==
    (Running /\ PopsSegment(Self)) =>
        \A ok \in BOOLEAN : update(Self, Act("GoBack"), ok).input_mode = "Normal"

\* --------------------------------------------------------------------- C15
\* what GoBack is to do in state s: hide the help, else leave SelectType,
\* else (with an empty path) nothing
Dismissed(s) ==
    IF s.show_help THEN [s EXCEPT !.show_help = FALSE]
    ELSE IF s.input_mode = "SelectType" THEN [s EXCEPT !.input_mode = "Normal"]
    ELSE s

DismissesOnly(s) ==
    s.show_help \/ s.input_mode = "SelectType" \/ s.path = <<>>

EditModes == {"Editing", "EditingColumn"}

\* C16 as stated (its first half): SubmitTask or ExitEditMode issued in
\* Editing or EditingColumn mode ends with the mode Normal and the buffer
\* empty, for every view and every buffer content
C16_LeavingEditModes ==
    (Running /\ input_mode \in EditModes) =>
        \A ok \in BOOLEAN : \A t \in {"SubmitTask", "ExitEditMode"} :
            /\ ~update(Self, Act(t), ok).crashed
            /\ update(Self, Act(t), ok).input_mode = "Normal"
            /\ update(Self, Act(t), ok).input_buffer = <<>>

\* --------------------------------------------------------------------- C17
\* the ids of the tasks of the tree under board b
TaskIds(b) == {k[1] : k \in Kinds(b)}

\* `task` is a new task without content titled `title`
IsNewTask(s, task, title) ==
    /\ task.title = title
    /\ task.description = <<>>
    /\ task.content = NoContent
    /\ task.id \notin TaskIds(s.root)

\* board `after` is board `before` with one new task at the end of column c
AddedIn(s, before, after, c, title) ==
    /\ c < Len(before.columns)
    /\ Len(after.columns) = Len(before.columns)
    /\ after.title = before.title
    /\ \A k \in 1..Len(before.columns) :
          /\ after.columns[k].title = before.columns[k].title
          /\ IF k = c + 1
             THEN /\ Len(after.columns[k].tasks) = Len(before.columns[k].tasks) + 1
                  /\ SubSeq(after.columns[k].tasks, 1, Len(before.columns[k].tasks))
                       = before.columns[k].tasks
                  /\ IsNewTask(s, after.columns[k].tasks[Len(after.columns[k].tasks)], title)
             ELSE after.columns[k].tasks = before.columns[k].tasks

TaskAdded(s, s2) ==
    /\ ~s2.crashed
    /\ s2.cursor = s.cursor
    /\ s2.path = s.path
    /\ IF Trim(s.input_buffer) # <<>>
       THEN /\ ViewIs(s2, "Board")
            /\ AddedIn(s, get_active_content(s).board, get_active_content(s2).board,
                       s.cursor[1], Trim(s.input_buffer))
            /\ TaskCount(s2.root) = TaskCount(s.root) + 1
       ELSE s2.root = s.root

\* C17: SubmitTask in Editing mode with a Board view and a buffer that is not
\* blank appends one task without content, titled with the trimmed buffer,
\* at the end of the column under the cursor; the tasks of that column keep
\* their places, the other columns and the cursor are unchanged.  A blank
\* buffer adds nothing.
C17_AddTask ==
    (Running /\ input_mode = "Editing" /\ ViewIs(Self, "Board")) =>
        \A ok \in BOOLEAN : TaskAdded(Self, update(Self, Act("SubmitTask"), ok))

\* the default board after one task "a" was added to its first column
C17_Witness ==
    /\ edits = 1
    /\ input_mode = "Normal" /\ input_buffer = <<>>
    /\ root = [Board_default EXCEPT !.columns[1].tasks = <<Task_new(1, <<"a">>, <<>>)>>]

\* --------------------------------------------------------------------- C18
ColumnTitles(b) == [k \in 1..Len(b.columns) |-> b.columns[k].title]

\* <<id of the owning task, titles of the columns>> of every nested board
\* under board b
RECURSIVE NestedBoards(_)
NestedBoards(b) ==
    UNION { UNION { IF b.columns[c].tasks[r].content.kind = "Board"
                    THEN {<<b.columns[c].tasks[r].id,
                            ColumnTitles(b.columns[c].tasks[r].content.board)>>}
                         \cup NestedBoards(b.columns[c].tasks[r].content.board)
                    ELSE {}
                    : r \in 1..Len(b.columns[c].tasks) }
            : c \in 1..Len(b.columns) }

IsPrefix(a, b) == Len(a) <= Len(b) /\ SubSeq(b, 1, Len(a)) = a

\* every board that is there before and after has its old columns, in
\* order, at the front of its new ones
ColumnsKept(s, s2) ==
    /\ IsPrefix(ColumnTitles(s.root), ColumnTitles(s2.root))
    /\ \A old \in NestedBoards(s.root) : \A new \in NestedBoards(s2.root) :
          old[1] = new[1] => IsPrefix(old[2], new[2])

\* C18 as stated (its last part): whatever the action, no column of any
\* board is removed, reordered or retitled
C18_ColumnsAppendOnly ==
    Running =>
        /\ \A t \in ActionTypes : ColumnsKept(Self, handle(Self, Act(t)))
        /\ \A ch \in Chars : ColumnsKept(Self, handle(Self, [type |-> "InputChar", ch |-> ch]))

\* --------------------------------------------------------------------- C19
\* board `after` is board `before` without the task at (c, r)
RemovedIn(before, after, c, r) ==
    /\ Len(after.columns) = Len(before.columns)
    /\ after.title = before.title
    /\ \A k \in 1..Len(before.columns) :
          /\ after.columns[k].title = before.columns[k].title
          /\ IF k = c + 1
             THEN /\ Len(after.columns[k].tasks) = Len(before.columns[k].tasks) - 1
                  /\ \A i \in 1..Len(after.columns[k].tasks) :
                        after.columns[k].tasks[i] =
                            IF i <= r THEN before.columns[k].tasks[i]
                                      ELSE before.columns[k].tasks[i + 1]
             ELSE after.columns[k].tasks = before.columns[k].tasks

\* the tasks in the subtree of a task, the task included
SubtreeSize(task) ==
    1 + (IF task.content.kind = "Board" THEN TaskCount(task.content.board) ELSE 0)

WasLastRow(s) ==
    s.cursor[2] = Len(get_active_content(s).board.columns[s.cursor[1] + 1].tasks) - 1

TaskDeleted(s, s2) ==
    /\ ~s2.crashed
    /\ s2.path = s.path
    /\ s2.input_mode = s.input_mode
    /\ IF TaskAtCursor(s)
       THEN /\ ViewIs(s2, "Board")
            /\ RemovedIn(get_active_content(s).board, get_active_content(s2).board,
                         s.cursor[1], s.cursor[2])
            /\ TaskCount(s2.root) = TaskCount(s.root) - SubtreeSize(TaskUnderCursor(s))
            /\ s2.cursor = IF WasLastRow(s) /\ s.cursor[2] > 0
                           THEN <<s.cursor[1], s.cursor[2] - 1>>
                           ELSE s.cursor
       ELSE SameButSaved(s, s2)

TextsAndFlags(items) ==
    [i \in 1..Len(items) |-> [text |-> items[i].text, done |-> items[i].done]]

ItemDeleted(s, s2) ==
    /\ ViewIs(s2, "Todo")
    /\ TextsAndFlags(get_active_content(s2).items)
         = TextsAndFlags(SubSeq(get_active_content(s).items, 1, s.cursor[2])
                         \o SubSeq(get_active_content(s).items, s.cursor[2] + 2,
                                   Len(get_active_content(s).items)))
    /\ s2.cursor[2] = IF s.cursor[2] = Len(get_active_content(s).items) - 1 /\ s.cursor[2] > 0
                      THEN s.cursor[2] - 1
                      ELSE s.cursor[2]

\* C20 as stated: DeleteTask in a to-do view removes the item at cursor.row;
\* the cursor row goes down by one only if that item was the last of the
\* list and not row 0, and stays when another item is removed
C20_DeleteInTodo ==
    (Running /\ TogglesItem(Self)) =>
        \A ok \in BOOLEAN : ItemDeleted(Self, update(Self, Act("DeleteTask"), ok))

\* --------------------------------------------------------------------- C21
\* board b with the node that path p addresses taken out: the columns of
\* the board at its end, or the content of the first task on it that holds
\* no board
RECURSIVE Hollow(_, _)
Hollow(b, p) ==
    IF p = <<>> THEN [title |-> b.title, columns |-> <<>>]
    ELSE [b EXCEPT !.columns[p[1][1] + 1].tasks[p[1][2] + 1].content =
              IF @.kind = "Board"
              THEN BoardContent(Hollow(@.board, Tail(p)))
              ELSE [kind |-> "Hole"]]

\* the task the path resolves to
TipTask(s) == get_task_mut_recursive(s.root, s.path).task

TextSet(s, s2) ==
    /\ ~s2.crashed
    /\ s2.path = s.path
    /\ Hollow(s2.root, s.path) = Hollow(s.root, s.path)
    /\ TipTask(s2) = [TipTask(s) EXCEPT !.content = TextContent(s.input_buffer)]

OnTextTask(s) ==
    /\ s.input_mode = "Normal"
    /\ TaskAtCursor(s)
    /\ TaskUnderCursor(s).content.kind = "Text"

\* C21: SubmitTask in Editing mode with a Text view replaces the text of the
\* task the path addresses by the input buffer as it is, not trimmed and
\* possibly empty; the task keeps the Text variant and no other task
\* changes.  Drilling into a text and submitting at once leaves the text as
\* it was.
C21_SetTextContent ==
    /\ (Running /\ input_mode = "Editing" /\ ViewIs(Self, "Text")) =>
          \A ok \in BOOLEAN : TextSet(Self, update(Self, Act("SubmitTask"), ok))
    /\ (Running /\ OnTextTask(Self)) =>
          handle(handle(Self, Act("DrillDown")), Act("SubmitTask")).root = root

\* the text of the nested task of the stored tree has been replaced by one
\* blank
C21_Witness ==
    /\ edits = 1
    /\ path = << <<0, 1>>, <<0, 0>> >>
    /\ input_mode = "Normal"
    /\ TipTask(Self).content = TextContent(<<" ">>)

\* --------------------------------------------------------------------- C22
\* the paths the resolver is tried on
Paths ==
    UNION { [1..n -> (0..MaxIndex) \X (0..MaxIndex)] : n \in 0..MaxPathLen }

InRange(b, seg) ==
    /\ seg[1] < Len(b.columns)
    /\ seg[2] < Len(b.columns[seg[1] + 1].tasks)

TaskAt(b, seg) == b.columns[seg[1] + 1].tasks[seg[2] + 1]

\* every step of p is in range and leads into a nested board
RECURSIVE AllBoards(_, _)
AllBoards(b, p) ==
    \/ p = <<>>
    \/ /\ InRange(b, p[1])
       /\ TaskAt(b, p[1]).content.kind = "Board"
       /\ AllBoards(TaskAt(b, p[1]).content.board, Tail(p))

\* the board at the end of such steps
RECURSIVE BoardAfter(_, _)
BoardAfter(b, p) ==
    IF p = <<>> THEN b ELSE BoardAfter(TaskAt(b, p[1]).content.board, Tail(p))

\* step k of p is the first that reaches a task holding no board
IsFirstLeaf(b, p, k) ==
    /\ AllBoards(b, SubSeq(p, 1, k - 1))
    /\ InRange(BoardAfter(b, SubSeq(p, 1, k - 1)), p[k])
    /\ TaskAt(BoardAfter(b, SubSeq(p, 1, k - 1)), p[k]).content.kind # "Board"

LeafView(task) ==
    CASE task.content.kind = "Todo" -> [kind |-> "Todo", items |-> task.content.items]
      [] task.content.kind = "Text" -> [kind |-> "Text", text |-> task.content.text]
      [] task.content.kind = "None" -> [kind |-> "None"]

\* the indices of p are in range up to the point where the walk stops
Walkable(b, p) ==
    AllBoards(b, p) \/ \E k \in 1..Len(p) : IsFirstLeaf(b, p, k)

ViewAsClaimed(b, p, view) ==
    /\ AllBoards(b, p) => view = [kind |-> "Board", board |-> BoardAfter(b, p)]
    /\ \A k \in 1..Len(p) :
          IsFirstLeaf(b, p, k) =>
              view = LeafView(TaskAt(BoardAfter(b, SubSeq(p, 1, k - 1)), p[k]))

\* get_active_content as a function of the App it is called on: the App
\* holds a board that App::new has loaded and any of the paths
InitView == Init

Resolve ==
    /\ Running
    /\ \E p \in Paths : path' = p
    /\ UNCHANGED <<root, cursor, input_mode, input_buffer, should_quit, show_help,
                   dirty, crashed, next_id, descents, disk, save_fails, edits,
                   cli_board>>

NextView == Resolve

SpecView == InitView /\ [][NextView]_vars

\* C22: for every path whose indices are in range up to the point where the
\* walk stops, get_active_content returns the view of the first task along
\* the path that holds no nested board (to-do list, text, or the empty view
\* for a task without content), whatever segments follow; when every step
\* leads into a nested board, or the path is empty, it returns the board
\* reached at the end.
C22_ViewResolution ==
    Walkable(root, path) => ViewAsClaimed(root, path, get_active_content(Self))

\* on the stored tree a path that goes on past the nested text task
\* resolves to that text
C22_Witness ==
    /\ root = StoredTree
    /\ path = << <<0, 1>>, <<0, 0>>, <<1, 1>> >>
    /\ Walkable(root, path)
    /\ get_active_content(Self) = [kind |-> "Text", text |-> <<"x">>]

\* --------------------------------------------------------------------- C23
\* the commands that do not fit the view, or the selections outside SelectType
Mismatched(s) ==
    {t \in ActionTypes :
        \/ t = "ToggleTodo" /\ ~ViewIs(s, "Todo")
        \/ t \in {"MoveTaskLeft", "MoveTaskRight", "EnterAddColumnMode"} /\ ~ViewIs(s, "Board")
        \/ t \in {"EnterEditMode", "DeleteTask"} /\ ViewIs(s, "Text")
        \/ t \in SelectTypes /\ s.input_mode # "SelectType"}

\* C23 (as amended): ToggleTodo outside a to-do view, MoveTaskLeft,
\* MoveTaskRight and EnterAddColumnMode outside a Board view, EnterEditMode
\* and DeleteTask in a Text view, and the three selections outside
\* SelectType mode leave tree, path, cursor, input mode and input buffer
\* unchanged and do not set the dirty flag (a pending save may clear it).
C23_ViewMismatchIgnored ==
    Running =>
        \A t \in Mismatched(Self) :
            /\ handle(Self, Act(t)) = Self
            /\ \A ok \in BOOLEAN :
                  /\ SameButSaved(Self, update(Self, Act(t), ok))
                  /\ update(Self, Act(t), ok).dirty => dirty

\* C23 as stated: the dirty flag too is unchanged
C23_AsStated ==
    Running =>
        \A t \in Mismatched(Self) : \A ok \in BOOLEAN :
            /\ SameButSaved(Self, update(Self, Act(t), ok))
            /\ update(Self, Act(t), ok).dirty = dirty

\* two levels down in a text, where DeleteTask, EnterEditMode, ToggleTodo
\* and MoveTaskLeft do not apply: DeleteTask leaves the state as it is
C23_Witness ==
    /\ Running
    /\ ViewIs(Self, "Text")
    /\ Len(path) = 2
    /\ {"DeleteTask", "EnterEditMode", "ToggleTodo", "MoveTaskLeft"} \subseteq Mismatched(Self)
    /\ handle(Self, Act("DeleteTask")) = Self


\* Commands the key map of run_app never issues in the mode m: the input
\* commands outside the editing modes, the item commands outside Normal mode.
ModeMismatched(m) ==
    (IF m \in {"Normal", "SelectType"}
     THEN {Act(t) : t \in {"InputBackspace", "SubmitTask"}}
          \cup {[type |-> "InputChar", ch |-> ch] : ch \in Chars}
     ELSE {})
    \cup
    (IF m \in {"Editing", "EditingColumn", "SelectType"}
     THEN {Act(t) : t \in {"DeleteTask", "ToggleTodo", "DrillDown", "EnterEditMode"}}
     ELSE {})

SameView(s, t) ==
    /\ t.root = s.root
    /\ t.path = s.path
    /\ t.cursor = s.cursor
    /\ t.input_mode = s.input_mode
    /\ t.input_buffer = s.input_buffer

\* C24 (as stated): a command passed to App::update in an input mode that does
\* not support it leaves the tree, path, cursor, input mode and input buffer
\* unchanged.  App::update dispatches on the action alone, so this fails.
C24_ModeMismatchIgnored ==
    Running =>
        \A a \in ModeMismatched(input_mode) : \A ok \in BOOLEAN :
            SameView(Self, update(Self, a, ok))


\* every command App::update accepts
Commands ==
    {Act(t) : t \in ActionTypes} \cup {[type |-> "InputChar", ch |-> ch] : ch \in Chars}

\* h is the state the handler left, f the state after an update whose save
\* failed, g the state after the same update with a save that succeeded
SavePreserves(s, h, f, g) ==
    /\ h.dirty =>
          /\ f.root = g.root /\ f.path = g.path
          /\ f.cursor = g.cursor /\ f.input_mode = g.input_mode
          /\ f.root = h.root
          /\ f.dirty
          /\ f.disk = s.disk
          /\ ~g.dirty
          /\ g.disk = OnDisk(f.root)
    /\ s.dirty => h.dirty

\* C25: when the save at the end of an update fails, the tree, path, cursor
\* and input mode are what they would be had it succeeded, dirty stays true
\* and the file is not written; a state that is dirty stays dirty through the
\* next handler, so the save is attempted again at the end of the next update,
\* and when that save succeeds the persisted board equals the in-memory tree.
C25_FailedSaveRetried ==
    /\ Running =>
          \A a \in Commands :
              ~handle(Self, a).crashed =>
                  SavePreserves(Self, handle(Self, a),
                                update(Self, a, FALSE), update(Self, a, TRUE))
    /\ (Running /\ save_fails > 0) => dirty

\* a save has failed and the file is behind the tree; a cursor move, which
\* mutates nothing, writes the tree when its save succeeds
C25_Witness ==
    /\ Running
    /\ dirty
    /\ save_fails = 1
    /\ disk # OnDisk(root)
    /\ update(Self, Act("MoveDown"), FALSE) = handle(Self, Act("MoveDown"))
    /\ update(Self, Act("MoveDown"), TRUE).disk = OnDisk(root)
    /\ ~update(Self, Act("MoveDown"), TRUE).dirty


\* The caller of update can tell the update whose save failed from the one
\* whose save succeeded: by the returned Result, or by a field of App other
\* than the pending-write flag.
Reported(s, a) ==
    \/ update_result(s, a, FALSE) # update_result(s, a, TRUE)
    \/ ~SameButSaved(update(s, a, FALSE), update(s, a, TRUE))

\* C26 (as stated): when the save triggered by an update fails, the failure
\* is observable to the caller of App::update as an error result or a
\* recorded error or status.  update returns Ok(()) whatever save returned
\* and App has no field for an error, so this fails wherever a save runs.
C26_FailureReported ==
    Running =>
        \A a \in Commands :
            (handle(Self, a).dirty /\ ~handle(Self, a).crashed) => Reported(Self, a)


\* the handler's state h changed the tree of s
TreeChanged(s, h) == h.root # s.root

\* the file holds the tree, or nothing was written since the default board
\* was loaded for want of a file
Persisted(s) ==
    \/ s.disk = OnDisk(s.root)
    \/ s.disk = NoFile /\ s.root = Board_default

\* C27 (as stated): an action that changes the tree sets dirty before the
\* auto-save; an action that does not change the tree triggers no write when
\* dirty is false; with a save that succeeds dirty is false after the update
\* and the persisted board is the root; dirty = false implies the tree is the
\* one last saved or loaded.
C27_AsStated ==
    /\ Running =>
          \A a \in Commands :
              ~handle(Self, a).crashed =>
                  /\ TreeChanged(Self, handle(Self, a)) => handle(Self, a).dirty
                  /\ (~dirty /\ ~TreeChanged(Self, handle(Self, a))) =>
                         /\ ~handle(Self, a).dirty
                         /\ update(Self, a, TRUE).disk = disk
                  /\ ~update(Self, a, TRUE).dirty
                  /\ Persisted(update(Self, a, TRUE))
    /\ (~crashed /\ ~dirty) => Persisted(Self)


\* the commands that store a content whether or not it differs from the one
\* in place: SubmitTask on a text, and a type selection
Rewrites(s, a) ==
    \/ a.type = "SubmitTask" /\ ViewIs(s, "Text") /\ s.input_mode # "EditingColumn"
    \/ a.type \in SelectTypes /\ s.input_mode = "SelectType"

\* h is the handler's state for command a in state s, f and g the states
\* after the update with a failed and a successful save
DirtyTracksTree(s, a, h, f, g) ==
    /\ TreeChanged(s, h) => h.dirty
    /\ (~s.dirty /\ ~TreeChanged(s, h) /\ h.dirty) => Rewrites(s, a)
    /\ ~h.dirty => (f.disk = s.disk /\ g.disk = s.disk)
    /\ ~g.dirty
    /\ Persisted(g)

\* C27 (amended): an action that changes the tree sets dirty before the
\* auto-save; an action that leaves dirty false writes nothing, and the only
\* actions that set dirty without changing the tree are SubmitTask on a text
\* and a type selection that store the content already there; with a save
\* that succeeds dirty is false after the update and the file holds the root
\* (or no file exists and the root is the default board that was loaded);
\* dirty = false implies the same of the current state.
C27_DirtyPersistence ==
    /\ Running =>
          \A a \in Commands :
              ~handle(Self, a).crashed =>
                  DirtyTracksTree(Self, a, handle(Self, a),
                                  update(Self, a, FALSE), update(Self, a, TRUE))
    /\ (~crashed /\ ~dirty) => Persisted(Self)

\* an edit has been saved, and in the text now viewed SubmitTask stores the
\* text that is already there: the tree stays, dirty is set, the file is
\* written again
C27_Witness ==
    /\ Running
    /\ ~dirty
    /\ edits >= 1
    /\ disk = OnDisk(root)
    /\ ViewIs(Self, "Text")
    /\ handle(Self, Act("SubmitTask")).root = root
    /\ handle(Self, Act("SubmitTask")).dirty
    /\ ~update(Self, Act("SubmitTask"), TRUE).dirty


\* the state App::new builds around the root b
Fresh(a, b) ==
    /\ a.root = b
    /\ a.path = <<>>
    /\ a.cursor = <<0, 0>>
    /\ a.input_mode = "Normal"
    /\ a.input_buffer = <<>>
    /\ ~a.should_quit
    /\ ~a.dirty

\* C28 (as stated): App::new returns successfully for every outcome of
\* reading the store, here the file the program has left or found and either
\* outcome of the read; without a file, with bytes that do not parse and with
\* a read that fails the root is the default board; the state is the fresh
\* one in all cases.  A read error on an existing file is returned by
\* App::new, so this fails.
C28_LoadNeverFails ==
    \A readable \in BOOLEAN :
        /\ App_new(disk, readable).ok
        /\ Fresh(App_new(disk, readable).app,
                 IF disk.exists /\ readable /\ decode_from_slice(disk).ok
                 THEN disk.board ELSE Board_default)


\* the step of a move command
Dx(t) == IF t = "MoveLeft" THEN -1 ELSE IF t = "MoveRight" THEN 1 ELSE 0
Dy(t) == IF t = "MoveUp" THEN -1 ELSE IF t = "MoveDown" THEN 1 ELSE 0

Least(a, b) == IF a <= b THEN a ELSE b

ClampRef(x, lo, hi) == Max2(lo, Least(x, hi))

\* The reference function for the cursor after a move by (dx, dy) in the
\* view v with the cursor cur.
MoveRef(v, cur, dx, dy) ==
    CASE v.kind = "Board" ->
           IF dx # 0
           THEN LET c == ClampRef(cur[1] + dx, 0, Len(v.board.columns) - 1)
                IN  <<c, Least(cur[2], Max2(0, Len(v.board.columns[c + 1].tasks) - 1))>>
           ELSE <<cur[1],
                  ClampRef(cur[2] + dy, 0,
                           Max2(0, Len(v.board.columns[cur[1] + 1].tasks) - 1))>>
      [] v.kind = "Todo" ->
           IF v.items = <<>> THEN cur
           ELSE <<0, ClampRef(cur[2] + dy, 0, Len(v.items) - 1)>>
      [] OTHER -> cur

\* the cursor the claim gives for move t in state s
MovedCursor(s, t) ==
    IF s.input_mode # "Normal" \/ s.show_help THEN s.cursor
    ELSE MoveRef(get_active_content(s), s.cursor, Dx(t), Dy(t))

\* C29 (amended): a move command changes the cursor to the value of the
\* reference function (identity when the mode is not Normal, the help is
\* shown or the view is a text or an empty list; in a board the column is
\* clamped and the row cut to the new column, or the row clamped in the
\* column; in a to-do list the row clamped and the column 0) and nothing
\* else: tree, path, mode, buffer stay, and dirty is not set.
C29_MoveIsReference ==
    Running =>
        \A t \in MoveTypes :
            /\ handle(Self, Act(t)) = [Self EXCEPT !.cursor = MovedCursor(Self, t)]
            /\ \A ok \in BOOLEAN :
                  /\ SameButSaved([Self EXCEPT !.cursor = MovedCursor(Self, t)],
                                  update(Self, Act(t), ok))
                  /\ update(Self, Act(t), ok).dirty => dirty

\* C29 (as stated): a move through App::update never changes the dirty flag.
C29_AsStated ==
    Running =>
        \A t \in MoveTypes : \A ok \in BOOLEAN :
            /\ SameButSaved([Self EXCEPT !.cursor = MovedCursor(Self, t)],
                            update(Self, Act(t), ok))
            /\ update(Self, Act(t), ok).dirty = dirty

\* on the second task of a column, a move to the right lands in a column
\* with fewer tasks and the row comes down with it
C29_Witness ==
    /\ Running /\ input_mode = "Normal" /\ ~show_help
    /\ ViewIs(Self, "Board")
    /\ cursor[2] >= 1
    /\ handle(Self, Act("MoveRight")).cursor[1] = cursor[1] + 1
    /\ handle(Self, Act("MoveRight")).cursor[2] < cursor[2]
    /\ handle(Self, Act("MoveUp")).cursor = <<cursor[1], cursor[2] - 1>>


\* from state s with its path to state h, whatever lies outside the node the
\* path addresses is as it was, and the path still leads to the same tasks
Confined(s, h) ==
    /\ Hollow(h.root, s.path) = Hollow(s.root, s.path)
    /\ PathResolves(h.root, s.path, s.descents)

\* C30: every action that changes the tree changes only the node addressed
\* by the current path (the columns and tasks of the board in view, or the
\* to-do list or text of the task at the tip of the path); every task, column
\* and board outside that node, with the titles and ids of all ancestors and
\* their sibling tasks, is unchanged, and the segments on the path keep
\* addressing the same tasks.
C30_MutationsConfined ==
    Running =>
        \A a \in Commands :
            TreeChanged(Self, handle(Self, a)) => Confined(Self, handle(Self, a))

\* one level down in a nested board, with a sibling task beside the one the
\* path goes through, SubmitTask adds a task to the board in view
C30_Witness ==
    /\ Running
    /\ Len(path) = 1
    /\ ViewIs(Self, "Board")
    /\ input_mode = "Editing"
    /\ input_buffer = <<"a">>
    /\ Len(root.columns[path[1][1] + 1].tasks) >= 2
    /\ TreeChanged(Self, handle(Self, Act("SubmitTask")))
    /\ TaskCount(handle(Self, Act("SubmitTask")).root) = TaskCount(root) + 1
    /\ Confined(Self, handle(Self, Act("SubmitTask")))


\* C31 (as stated): move_task preserves the number of tasks of the board for
\* every input; with a destination column that does not exist the board is
\* left as it is, and with index 0 or an index beyond the source column
\* nothing changes.  The task is removed before the destination is looked up,
\* so a move to a column that does not exist loses it.
C31_MoveConserves ==
    \A c1 \in CliCols, c2 \in CliCols, idx \in CliIdx :
        /\ CliTotal(move_task(cli_board, c1, c2, idx)) = CliTotal(cli_board)
        /\ c2 \notin DOMAIN cli_board => move_task(cli_board, c1, c2, idx) = cli_board
        /\ (c1 \in DOMAIN cli_board /\ (idx = 0 \/ idx > Len(cli_board[c1]))) =>
               move_task(cli_board, c1, c2, idx) = cli_board


\* the cursor of state s lies within the view v of s
InBounds(s, v) ==
    CASE v.kind = "Board" ->
           /\ Len(v.board.columns) >= 1
           /\ s.cursor[1] < Len(v.board.columns)
           /\ s.cursor[2] < Max2(1, Len(v.board.columns[s.cursor[1] + 1].tasks))
      [] v.kind = "Todo" ->
           /\ s.cursor[1] = 0
           /\ s.cursor[2] < Max2(1, Len(v.items))
      [] v.kind = "Text" -> s.cursor = <<0, 0>>
      [] OTHER -> TRUE

C33_SelectionOnBoard ==
    (Running /\ input_mode = "SelectType") => ViewIs(Self, "Board")


\* C34: when actions are issued only as run_app allows, no reachable state
\* has panicked, and no key press that run_app passes on makes the handler
\* panic (get_board_recursive on a path that does not end in a board, or an
\* index out of range).
C34_NoCrashUnderKeyMap ==
    /\ ~crashed
    /\ Running =>
          \A key \in Keys :
              run_app(Self, key).some => ~handle(Self, run_app(Self, key).action).crashed

\* one level down in a nested board, in EditingColumn mode with a title
\* typed, Enter is SubmitTask: get_board_recursive follows the path and the
\* column is added
C34_Witness ==
    /\ Running /\ ~show_help
    /\ Len(path) >= 1
    /\ input_mode = "EditingColumn"
    /\ input_buffer = <<"a">>
    /\ run_app(Self, NamedKey("Enter")) = Some("SubmitTask")
    /\ ~handle(Self, Act("SubmitTask")).crashed
    /\ TreeChanged(Self, handle(Self, Act("SubmitTask")))


\* what the input mode of state s says of its view and buffer
ModeFitsView(s) ==
    CASE s.input_mode = "SelectType" ->
           /\ TaskAtCursor(s)
           /\ TaskUnderCursor(s).content.kind = "None"
      [] s.input_mode = "EditingColumn" -> ViewIs(s, "Board")
      [] s.input_mode = "Editing" ->
           get_active_content(s).kind \in {"Board", "Todo", "Text"}
      [] s.input_mode = "Normal" -> s.input_buffer = <<>>

\* C35: when actions are issued only as run_app allows, in every reachable
\* state mode SelectType implies a Board view whose task at the cursor exists
\* and has no content; mode EditingColumn implies a Board view; mode Editing
\* implies a Board, TodoList or Text view; mode Normal implies an empty input
\* buffer.
C35_ModeViewConsistency == ModeFitsView(Self)

\* a task has been added with the keys a, a, Enter and Enter pressed on it:
\* the mode is SelectType on the board of the task, which has no content yet;
\* the key t binds a to-do list and descends in Normal mode
C35_Witness ==
    /\ Running /\ ~show_help
    /\ input_mode = "SelectType"
    /\ edits >= 1
    /\ ViewIs(Self, "Board")
    /\ TaskAtCursor(Self)
    /\ TaskUnderCursor(Self).title = <<"a">>
    /\ TaskUnderCursor(Self).content.kind = "None"
    /\ run_app(Self, CharKey("t")) = Some("SelectTodo")
    /\ ModeFitsView(handle(Self, Act("SelectTodo")))
    /\ handle(Self, Act("SelectTodo")).input_mode = "Normal"

====
